---- MODULE Spec2Model ----
(***************************************************************************)
(* Model of backend/routes/coh.py: the Cost Optimization Hub exporter.     *)
(* One run resolves the output folder, creates it, opens the CSV file,     *)
(* writes the header, pages through list_recommendations and writes one    *)
(* row per item of every page whose HTTPStatusCode is 200, closes the file *)
(* and prints the path.  A second run of the script against the same       *)
(* filesystem is modelled by Restart.                                      *)
(***************************************************************************)
EXTENDS Integers, Sequences, FiniteSets, TLC

VARIABLES
    client_name,    \* line 20/31: configured client name (characters)
    local_root,     \* line 22/32: configured local root (characters)
    now,            \* the clock read by datetime.now(): [year, month]
    current_date,   \* line 28: strftime('%Y%m') of now (characters)
    folder_path,    \* line 36
    csv_filename,   \* line 43
    pages,          \* what the paginator yields: the sequence of pages
    failAt,         \* 0, or the number of the request that raises
    dirExists,      \* filesystem: the output folder exists
    file,           \* filesystem: the output file [exists, lines]
    handle,         \* csvfile: "none", "open" or "closed"
    requested,      \* number of list_recommendations requests issued
    itemNo,         \* items of the current page already handled
    row,            \* line 80: the row built last (Python values)
    console,        \* lines printed so far
    err,            \* the exception that ended the run, or "none"
    pc,             \* position of the script
    run,            \* "first" or "second" invocation of the script
    prev            \* what the first invocation saw and left behind

vars == <<client_name, local_root, now, current_date, folder_path,
          csv_filename, pages, failAt, dirExists, file, handle, requested,
          itemNo, row, console, err, pc, run, prev>>

----------------------------------------------------------------------------
(* Bounds of the model *)

MaxPages == 2       \* pages the paginator yields in the export runs
MaxItems == 2       \* items of one page in the export runs
MaxAbsent == 2      \* absent (or present) fields of a record in SpecRow

----------------------------------------------------------------------------
(* Python values held by a record field or a row cell *)

NoneVal == [t |-> "none", s |-> "", n |-> 0, b |-> FALSE]
StrVal(x) == [t |-> "str", s |-> x, n |-> 0, b |-> FALSE]
IntVal(x) == [t |-> "int", s |-> "", n |-> x, b |-> FALSE]
BoolVal(x) == [t |-> "bool", s |-> "", n |-> 0, b |-> x]

\* The field names read at lines 81-90, in the order of the row's cells.
Fields ==
    << "accountId", "actionType", "currencyCode",
       "currentResourceSummary", "currentResourceType",
       "estimatedMonthlyCost", "estimatedMonthlySavings",
       "estimatedSavingsPercentage", "implementationEffort",
       "lastRefreshTimestamp", "recommendationId",
       "recommendationLookbackPeriodInDays",
       "recommendedResourceSummary", "recommendedResourceType",
       "region", "resourceArn", "resourceId",
       "restartNeeded", "rollbackPossible",
       "source", "tags" >>

FieldSet == {Fields[i] : i \in DOMAIN Fields}

\* dict.get(key): the value, or None when the key is absent.
Get(item, f) == IF f \in DOMAIN item THEN item[f] ELSE NoneVal

\* A plausible slip in the row literal: two neighbouring cells exchanged.
RowSwapped(item) ==
    << Get(item, "accountId"), Get(item, "actionType"), Get(item, "currencyCode"),
       Get(item, "currentResourceSummary"), Get(item, "currentResourceType"),
       Get(item, "estimatedMonthlyCost"), Get(item, "estimatedMonthlySavings"),
       Get(item, "estimatedSavingsPercentage"), Get(item, "implementationEffort"),
       Get(item, "lastRefreshTimestamp"), Get(item, "recommendationId"),
       Get(item, "recommendationLookbackPeriodInDays"),
       Get(item, "recommendedResourceSummary"), Get(item, "recommendedResourceType"),
       Get(item, "region"), Get(item, "resourceId"), Get(item, "resourceArn"),
       Get(item, "restartNeeded"), Get(item, "rollbackPossible"),
       Get(item, "source"), Get(item, "tags") >>

\* lines 80-91: the row built for one item.
Row(item) ==
    << Get(item, "accountId"), Get(item, "actionType"), Get(item, "currencyCode"),
       Get(item, "currentResourceSummary"), Get(item, "currentResourceType"),
       Get(item, "estimatedMonthlyCost"), Get(item, "estimatedMonthlySavings"),
       Get(item, "estimatedSavingsPercentage"), Get(item, "implementationEffort"),
       Get(item, "lastRefreshTimestamp"), Get(item, "recommendationId"),
       Get(item, "recommendationLookbackPeriodInDays"),
       Get(item, "recommendedResourceSummary"), Get(item, "recommendedResourceType"),
       Get(item, "region"), Get(item, "resourceArn"), Get(item, "resourceId"),
       Get(item, "restartNeeded"), Get(item, "rollbackPossible"),
       Get(item, "source"), Get(item, "tags") >>

\* A header that lost its last column.
HeaderShort ==
    << "Account ID", "Action Type", "Currency Code", "Current Resource Summary",
       "Current Resource Type", "Estimated Monthly Cost", "Estimated Monthly Savings",
       "Estimated Savings Percentage", "Implementation Effort", "Last Refresh Timestamp",
       "Recommendation ID", "Recommendation Lookback Period In Days",
       "Recommended Resource Summary", "Recommended Resource Type", "Region",
       "Resource ARN", "Resource ID", "Restart Needed", "Rollback Possible",
       "Source" >>

\* lines 49-57: the header row.
header ==
    << "Account ID", "Action Type", "Currency Code", "Current Resource Summary",
       "Current Resource Type", "Estimated Monthly Cost", "Estimated Monthly Savings",
       "Estimated Savings Percentage", "Implementation Effort", "Last Refresh Timestamp",
       "Recommendation ID", "Recommendation Lookback Period In Days",
       "Recommended Resource Summary", "Recommended Resource Type", "Region",
       "Resource ARN", "Resource ID", "Restart Needed", "Rollback Possible",
       "Source", "Tags" >>

\* csv.writer's text of one cell: None is written as the empty string, a
\* string as itself, anything else as str(value).
CellText(v) ==
    CASE v.t = "none" -> ""
      [] v.t = "str" -> v.s
      [] v.t = "int" -> ToString(v.n)
      [] v.t = "bool" -> IF v.b THEN "True" ELSE "False"

\* The record csv_writer.writerow(cells) adds to the file.
CsvLine(cells) == [c \in DOMAIN cells |-> CellText(cells[c])]

\* A writer that drops a line the file already holds.
AppendLineDedup(f, line) ==
    IF \E i \in DOMAIN f.lines : f.lines[i] = line
    THEN f
    ELSE [f EXCEPT !.lines = Append(@, line)]

\* lines 58, 92: writerow adds one line at the end of the file.
AppendLine(f, line) == [f EXCEPT !.lines = Append(@, line)]

\* Opening in append mode keeps what the file held.
OpenAppend(f) == [exists |-> TRUE, lines |-> f.lines]

\* line 46: open(csv_filename, 'w') creates or truncates the file.
OpenTruncate(f) == [exists |-> TRUE, lines |-> <<>>]

\* A handle that is left open when the block is left.
Leak(h) == h

\* line 46: leaving the with block closes csvfile, on return or on error.
Release(h) == "closed"

----------------------------------------------------------------------------
(* Pages of list_recommendations *)

Page(hasMeta, hasCode, code, hasItems, items) ==
    [hasMeta |-> hasMeta, hasCode |-> hasCode, code |-> code,
     hasItems |-> hasItems, items |-> items]

\* Every status in the 2xx range accepted.
StatusOk2xx(page) ==
    page.hasMeta /\ page.hasCode /\ page.code >= 200 /\ page.code < 300

\* line 77: page.get('ResponseMetadata', {}).get('HTTPStatusCode') == 200
StatusOk(page) == page.hasMeta /\ page.hasCode /\ page.code = 200

\* line 79: page.get('items', [])
PageItems(page) == IF page.hasItems THEN page.items ELSE <<>>

----------------------------------------------------------------------------
(* Paths and dates, as sequences of characters *)

Digits == <<"0", "1", "2", "3", "4", "5", "6", "7", "8", "9">>

RECURSIVE ZeroPad(_, _)
\* n in decimal, zero-padded on the left to w digits.
ZeroPad(n, w) ==
    IF w = 0 THEN <<>> ELSE ZeroPad(n \div 10, w - 1) \o <<Digits[(n % 10) + 1]>>

RECURSIVE Decimal(_)
\* n in decimal without padding.
Decimal(n) ==
    IF n < 10 THEN <<Digits[n + 1]>> ELSE Decimal(n \div 10) \o <<Digits[(n % 10) + 1]>>

\* A month written without its leading zero.
StrftimeUnpadded(d) == ZeroPad(d.year, 4) \o Decimal(d.month)

\* line 28: strftime('%Y%m'): 4-digit year, 2-digit month.
Strftime(d) == ZeroPad(d.year, 4) \o ZeroPad(d.month, 2)

\* os.path.join of two components (posixpath.join).
Join2(a, b) ==
    IF b # <<>> /\ b[1] = "/" THEN b
    ELSE IF a = <<>> \/ a[Len(a)] = "/" THEN a \o b
    ELSE a \o <<"/">> \o b

\* line 36: os.path.join(local_root, client_name, current_date)
FolderPath(root, client, date) == Join2(Join2(root, client), date)

RecommendationsCsv ==
    <<"_", "r", "e", "c", "o", "m", "m", "e", "n", "d", "a", "t", "i", "o",
      "n", "s", ".", "c", "s", "v">>

\* line 43: os.path.join(folder_path, f'{client_name}_recommendations.csv')
CsvFilename(folder, client) == Join2(folder, client \o RecommendationsCsv)

\* line 37: print("DEBUG: folder_path =", folder_path)
DebugLine(p) == [text |-> "DEBUG: folder_path =", path |-> p]

\* line 95: print(f'Results exported to local file: {csv_filename}')
DoneLine(p) == [text |-> "Results exported to local file:", path |-> p]

\* line 20
TitansSandbox ==
    <<"T", "i", "t", "a", "n", "s", "-", "S", "a", "n", "d", "b", "o", "x">>

\* line 22
CarbonTestRoot ==
    <<"/", "U", "s", "e", "r", "s", "/", "a", "d", "a", "r", "s", "h", "/",
      "C", "a", "r", "b", "o", "n", "-", "t", "e", "s", "t", "/">>

----------------------------------------------------------------------------
(* Inputs the runs are explored on *)

Acme == <<"A", "c", "m", "e">>
DataRootSlash == <<"/", "d", "a", "t", "a", "/">>
DataRoot == <<"/", "d", "a", "t", "a">>

ClientNames == {TitansSandbox, Acme}
LocalRoots == {CarbonTestRoot, DataRootSlash, DataRoot}
Dates == {[year |-> y, month |-> m] : y \in {2024, 2026}, m \in 1..12}
RunDate == [year |-> 2026, month |-> 11]

NumFields ==
    {"estimatedMonthlyCost", "estimatedMonthlySavings",
     "estimatedSavingsPercentage", "recommendationLookbackPeriodInDays"}
BoolFields == {"restartNeeded", "rollbackPossible"}

ColumnOf(f) == CHOOSE i \in DOMAIN Fields : Fields[i] = f

\* Sample value k of field f: numbers and booleans where the API returns
\* them, strings elsewhere (the second sample of a string is empty).
Val(f, k) ==
    IF f \in NumFields THEN IntVal(k * ColumnOf(f))
    ELSE IF f \in BoolFields THEN BoolVal(k = 1)
    ELSE IF k = 1 THEN StrVal(f) ELSE StrVal("")

Item(present, k) == [f \in present |-> Val(f, k)]

ItemA == Item(FieldSet, 1)
ItemB == Item(FieldSet \ {"estimatedMonthlyCost", "region", "tags"}, 2)

ItemLists == UNION {[1..n -> {ItemA, ItemB}] : n \in 0..MaxItems}

OkPages ==
    {Page(TRUE, TRUE, 200, TRUE, its) : its \in ItemLists}
        \cup {Page(TRUE, TRUE, 200, FALSE, <<>>)}

BadPages ==
    {Page(TRUE, TRUE, c, TRUE, <<ItemB>>) : c \in {201, 500}}
        \cup {Page(TRUE, FALSE, 0, TRUE, <<ItemB>>),
              Page(FALSE, FALSE, 0, TRUE, <<ItemB>>)}

PageSet == OkPages \cup BadPages

PageSeqs == UNION {[1..n -> PageSet] : n \in 0..MaxPages}

TwicePageSet ==
    {Page(TRUE, TRUE, 200, TRUE, its) : its \in UNION {[1..n -> {ItemA}] : n \in 0..MaxItems}}
        \cup BadPages

TwicePageSeqs == UNION {[1..n -> TwicePageSet] : n \in 0..MaxPages}

NoFile == [exists |-> FALSE, lines |-> <<>>]
StaleFile == [exists |-> TRUE, lines |-> <<CsvLine(Row(ItemB)), <<"stale">>>>]

RECURSIVE SmallSets(_)
\* The subsets of FieldSet of at most k elements.
SmallSets(k) ==
    IF k = 0 THEN {{}} ELSE {S \cup {f} : S \in SmallSets(k - 1), f \in FieldSet} \cup {{}}

RowItems ==
    {Item(FieldSet \ S, k) : S \in SmallSets(MaxAbsent), k \in 1..2}
        \cup {Item(S, k) : S \in SmallSets(MaxAbsent), k \in 1..2}

NoPrev == [pages |-> <<>>, file |-> NoFile, console |-> <<>>, pc |-> "none",
           requested |-> 0]

----------------------------------------------------------------------------
(* The script *)

\* The state of a process that has just started (nothing computed yet).
Fresh ==
    /\ current_date = <<>>
    /\ folder_path = <<>>
    /\ csv_filename = <<>>
    /\ handle = "none"
    /\ requested = 0
    /\ itemNo = 0
    /\ row = <<>>
    /\ console = <<>>
    /\ err = "none"
    /\ pc = "start"

\* Export runs: the configuration of lines 20-22, any upstream, and an old
\* file of an earlier month's run at the output path.
Init ==
    /\ client_name = TitansSandbox
    /\ local_root = CarbonTestRoot
    /\ now = RunDate
    /\ pages \in PageSeqs
    /\ failAt \in 0..(Len(pages) + 1)
    /\ file = StaleFile
    /\ dirExists = TRUE
    /\ Fresh
    /\ run = "first"
    /\ prev = NoPrev

\* Repeated runs: any upstream whose successful pages repeat one record,
\* with or without an old file at the output path.
InitTwice ==
    /\ client_name = TitansSandbox
    /\ local_root = CarbonTestRoot
    /\ now = RunDate
    /\ pages \in TwicePageSeqs
    /\ failAt \in 0..(Len(pages) + 1)
    /\ file \in {NoFile, StaleFile}
    /\ dirExists = file.exists
    /\ Fresh
    /\ run = "first"
    /\ prev = NoPrev

\* Path runs: any configuration and month, one page of one record.
InitPath ==
    /\ client_name \in ClientNames
    /\ local_root \in LocalRoots
    /\ now \in Dates
    /\ pages = <<Page(TRUE, TRUE, 200, TRUE, <<ItemA>>)>>
    /\ failAt = 0
    /\ file = NoFile
    /\ dirExists = FALSE
    /\ Fresh
    /\ run = "first"
    /\ prev = NoPrev

\* Row runs: one page holding one record with some of its fields absent.
InitRow ==
    /\ client_name = TitansSandbox
    /\ local_root = CarbonTestRoot
    /\ now = RunDate
    /\ pages \in {<<Page(TRUE, TRUE, 200, TRUE, <<it>>)>> : it \in RowItems}
    /\ failAt = 0
    /\ file = NoFile
    /\ dirExists = FALSE
    /\ Fresh
    /\ run = "first"
    /\ prev = NoPrev

\* lines 28-37: format the date, build the folder path, print it.
Configure ==
    /\ pc = "start"
    /\ current_date' = Strftime(now)
    /\ folder_path' = FolderPath(local_root, client_name, Strftime(now))
    /\ console' = Append(console, DebugLine(folder_path'))
    /\ pc' = "makedirs"
    /\ UNCHANGED <<client_name, local_root, now, csv_filename, pages, failAt,
                   dirExists, file, handle, requested, itemNo, row, err, run, prev>>

\* A failure of makedirs that is swallowed: the script goes on.
MakeDirsSwallow ==
    /\ pc = "makedirs"
    /\ \/ /\ dirExists' = TRUE
          /\ err' = err
       \/ /\ dirExists' = dirExists
          /\ err' = "makedirs"
    /\ pc' = "open"
    /\ UNCHANGED <<client_name, local_root, now, current_date, folder_path,
                   csv_filename, pages, failAt, file, handle, requested, itemNo,
                   row, console, run, prev>>

\* line 40: os.makedirs(folder_path, exist_ok=True) succeeds, or raises
\* OSError, which nothing catches.
MakeDirs ==
    /\ pc = "makedirs"
    /\ \/ /\ dirExists' = TRUE
          /\ err' = err
          /\ pc' = "open"
       \/ /\ dirExists' = dirExists
          /\ err' = "makedirs"
          /\ pc' = "aborted"
    /\ UNCHANGED <<client_name, local_root, now, current_date, folder_path,
                   csv_filename, pages, failAt, file, handle, requested, itemNo,
                   row, console, run, prev>>

\* lines 43-47: build the file name and open it for writing, or raise.
OpenCsv ==
    /\ pc = "open"
    /\ csv_filename' = CsvFilename(folder_path, client_name)
    /\ \/ /\ file' = OpenTruncate(file)
          /\ handle' = "open"
          /\ err' = err
          /\ pc' = "header"
       \/ /\ file' = file
          /\ handle' = handle
          /\ err' = "open"
          /\ pc' = "aborted"
    /\ UNCHANGED <<client_name, local_root, now, current_date, folder_path,
                   pages, failAt, dirExists, requested, itemNo, row, console,
                   run, prev>>

\* lines 49-58: write the header row, or raise (the with block closes).
WriteHeader ==
    /\ pc = "header"
    /\ \/ /\ file' = AppendLine(file, CsvLine([c \in DOMAIN header |-> StrVal(header[c])]))
          /\ handle' = handle
          /\ err' = err
          /\ pc' = "fetch"
       \/ /\ file' = file
          /\ handle' = Release(handle)
          /\ err' = "write"
          /\ pc' = "aborted"
    /\ UNCHANGED <<client_name, local_root, now, current_date, folder_path,
                   csv_filename, pages, failAt, dirExists, requested, itemNo,
                   row, console, run, prev>>

\* A failed request that is treated as the end of the listing.
FetchPageSwallow ==
    /\ pc = "fetch"
    /\ requested < Len(pages) \/ failAt = requested + 1
    /\ requested' = requested + 1
    /\ itemNo' = 0
    /\ IF failAt = requested + 1
       THEN pc' = "fetch" /\ handle' = handle /\ err' = err
       ELSE /\ handle' = handle
            /\ err' = err
            /\ pc' = IF StatusOk(pages[requested + 1])
                        /\ PageItems(pages[requested + 1]) # <<>>
                     THEN "rows" ELSE "fetch"
    /\ UNCHANGED <<client_name, local_root, now, current_date, folder_path,
                   csv_filename, pages, failAt, dirExists, file, row, console,
                   run, prev>>

\* A page that fails its status check ends the run with an error.
FetchPageStrict ==
    /\ pc = "fetch"
    /\ requested < Len(pages) \/ failAt = requested + 1
    /\ requested' = requested + 1
    /\ itemNo' = 0
    /\ IF failAt = requested + 1 \/ ~StatusOk(pages[requested + 1])
       THEN pc' = "aborted" /\ handle' = Release(handle) /\ err' = "list"
       ELSE /\ handle' = handle
            /\ err' = err
            /\ pc' = IF PageItems(pages[requested + 1]) # <<>>
                     THEN "rows" ELSE "fetch"
    /\ UNCHANGED <<client_name, local_root, now, current_date, folder_path,
                   csv_filename, pages, failAt, dirExists, file, row, console,
                   run, prev>>

\* lines 76-79: the iterator requests the next page; the request raises
\* (nothing catches it, the with block closes the file), or yields a page
\* that is skipped unless its status is 200.
FetchPage ==
    /\ pc = "fetch"
    /\ requested < Len(pages) \/ failAt = requested + 1
    /\ requested' = requested + 1
    /\ itemNo' = 0
    /\ IF failAt = requested + 1
       THEN pc' = "aborted" /\ handle' = Release(handle) /\ err' = "list"
       ELSE /\ handle' = handle
            /\ err' = err
            /\ pc' = IF StatusOk(pages[requested + 1])
                        /\ PageItems(pages[requested + 1]) # <<>>
                     THEN "rows" ELSE "fetch"
    /\ UNCHANGED <<client_name, local_root, now, current_date, folder_path,
                   csv_filename, pages, failAt, dirExists, file, row, console,
                   run, prev>>

\* lines 79-92: build the row of the next item and write it, or raise.
WriteRow ==
    /\ pc = "rows"
    /\ itemNo < Len(PageItems(pages[requested]))
    /\ row' = Row(PageItems(pages[requested])[itemNo + 1])
    /\ \/ /\ file' = AppendLine(file, CsvLine(row'))
          /\ itemNo' = itemNo + 1
          /\ handle' = handle
          /\ err' = err
          /\ pc' = IF itemNo + 1 = Len(PageItems(pages[requested]))
                   THEN "fetch" ELSE "rows"
       \/ /\ file' = file
          /\ itemNo' = itemNo
          /\ handle' = Release(handle)
          /\ err' = "write"
          /\ pc' = "aborted"
    /\ UNCHANGED <<client_name, local_root, now, current_date, folder_path,
                   csv_filename, pages, failAt, dirExists, requested, console,
                   run, prev>>

\* lines 76, 94-95: the iterator is exhausted; the with block closes the
\* file and the path is printed.
Finish ==
    /\ pc = "fetch"
    /\ requested >= Len(pages)
    /\ failAt # requested + 1
    /\ handle' = Release(handle)
    /\ console' = Append(console, DoneLine(csv_filename))
    /\ pc' = "done"
    /\ UNCHANGED <<client_name, local_root, now, current_date, folder_path,
                   csv_filename, pages, failAt, dirExists, file, requested,
                   itemNo, row, err, run, prev>>

EmptyOkPage == Page(TRUE, TRUE, 200, TRUE, <<>>)

\* A response that does not carry status 200.
Degraded(page) == ~(page.hasMeta /\ page.hasCode /\ page.code = 200)

\* The script is invoked a second time in the same month, on the filesystem
\* the first invocation left, after a first invocation that no local
\* filesystem error ended.  Upstream answers as before, or with one
\* degraded page replaced by a successful page without items.
Restart ==
    /\ run = "first"
    /\ pc \in {"done", "aborted"}
    /\ err \in {"none", "list"}
    /\ prev' = [pages |-> pages, file |-> file, console |-> console,
                pc |-> pc, requested |-> requested]
    /\ pages' \in {pages} \cup {[pages EXCEPT ![i] = EmptyOkPage] :
                                   i \in {j \in DOMAIN pages : Degraded(pages[j])}}
    /\ run' = "second"
    /\ current_date' = <<>>
    /\ folder_path' = <<>>
    /\ csv_filename' = <<>>
    /\ handle' = "none"
    /\ requested' = 0
    /\ itemNo' = 0
    /\ row' = <<>>
    /\ console' = <<>>
    /\ err' = "none"
    /\ pc' = "start"
    /\ UNCHANGED <<client_name, local_root, now, failAt, dirExists, file>>

\* One invocation of the script.
Next ==
    \/ Configure
    \/ MakeDirs
    \/ OpenCsv
    \/ WriteHeader
    \/ FetchPage
    \/ WriteRow
    \/ Finish

\* Two invocations in a row.
NextTwice ==
    \/ Next
    \/ Restart

Spec == Init /\ [][Next]_vars
SpecTwice == InitTwice /\ [][NextTwice]_vars
SpecPath == InitPath /\ [][Next]_vars
SpecRow == InitRow /\ [][Next]_vars

----------------------------------------------------------------------------
(* Vocabulary of the properties *)

Terminal == pc \in {"done", "aborted"}

\* The columns the specification declares for the output file, in order.
DeclaredColumns ==
    << "Account ID", "Action Type", "Currency Code", "Current Resource Summary",
       "Current Resource Type", "Estimated Monthly Cost", "Estimated Monthly Savings",
       "Estimated Savings Percentage", "Implementation Effort", "Last Refresh Timestamp",
       "Recommendation ID", "Recommendation Lookback Period In Days",
       "Recommended Resource Summary", "Recommended Resource Type", "Region",
       "Resource ARN", "Resource ID", "Restart Needed", "Rollback Possible",
       "Source", "Tags" >>

\* The lines of the items of one page, in item order.
PageRows(page) ==
    [i \in 1..Len(PageItems(page)) |-> CsvLine(Row(PageItems(page)[i]))]

RECURSIVE PassingRows(_)
\* The lines of the items of the pages with status 200, in page order.
PassingRows(ps) ==
    IF ps = <<>> THEN <<>>
    ELSE (IF Degraded(Head(ps)) THEN <<>> ELSE PageRows(Head(ps)))
             \o PassingRows(Tail(ps))

RECURSIVE PassingCount(_)
\* The number of items of the pages with status 200.
PassingCount(ps) ==
    IF ps = <<>> THEN 0
    ELSE (IF Degraded(Head(ps)) THEN 0 ELSE Len(PageItems(Head(ps))))
             + PassingCount(Tail(ps))

Printed(text) == \E i \in DOMAIN console : console[i].text = text

\* This run has opened the output file.
Opened == handle # "none"

----------------------------------------------------------------------------
(* C1: when a run completes, the output file is the header followed by    *)
(* exactly the rows of the items of the pages with status 200, in page    *)
(* order and item order; rows of other pages are absent and nothing is    *)
(* sorted, dropped as a duplicate or reordered.                           *)
C1_RowsInPageOrder ==
    pc = "done" =>
        /\ file.exists
        /\ file.lines = <<DeclaredColumns>> \o PassingRows(pages)

\* Page 1 has status 200 and two different items, page 2 has status 500
\* and one item: header + 2 rows.
C1_Witness ==
    /\ pc = "done"
    /\ Len(pages) = 2
    /\ pages[1] = Page(TRUE, TRUE, 200, TRUE, <<ItemB, ItemA>>)
    /\ pages[2] = Page(TRUE, TRUE, 500, TRUE, <<ItemB>>)
    /\ Len(file.lines) = 3

(* C2 as stated: the header row has exactly 20 columns and every data row  *)
(* has 20 cells.                                                           *)
C2_TwentyColumns ==
    (Opened /\ file.lines # <<>>) =>
        \A i \in DOMAIN file.lines : Len(file.lines[i]) = 20

(* C2 amended: once the header is written, the first line of the file is  *)
(* the 21 declared columns in their order, however many records follow,   *)
(* and every data row has 21 cells, one per header column.                *)
C2_TwentyOneColumns ==
    (Opened /\ file.lines # <<>>) =>
        /\ file.lines[1] = DeclaredColumns
        /\ Len(file.lines[1]) = 21
        /\ \A i \in DOMAIN file.lines : DOMAIN file.lines[i] = DOMAIN file.lines[1]

C2_Witness ==
    /\ pc = "done"
    /\ Len(file.lines) >= 3
    /\ \E i \in DOMAIN pages : PageItems(pages[i]) = <<>>

(* C3: the row built for a record holds None (written as an empty cell)   *)
(* in exactly the columns of its absent fields and the record's own value *)
(* in every other column; the row is written and the run completes        *)
(* whatever fields are absent.                                            *)
C3_AbsentFieldsEmpty ==
    row # <<>> =>
        LET item == PageItems(pages[requested])[1]
            written == err = "none"
            line == file.lines[Len(file.lines)]
        IN  /\ Len(row) = Len(Fields)
            /\ \A c \in DOMAIN Fields :
                  IF Fields[c] \in DOMAIN item
                  THEN /\ row[c] = item[Fields[c]]
                       /\ row[c] # NoneVal
                       /\ written => line[c] = CellText(item[Fields[c]])
                  ELSE /\ row[c] = NoneVal
                       /\ written => line[c] = ""
            /\ written => Len(file.lines) = 2
            /\ err \in {"none", "write"}

C3_Witness ==
    /\ pc = "done"
    /\ row # <<>>
    /\ DOMAIN pages[1].items[1] = FieldSet \ {"region", "tags"}
    /\ pages[1].items[1]["accountId"] = StrVal("accountId")

(* C4: a second run in the same month against the same upstream pages     *)
(* leaves the file the first run left; opening the file empties it, so    *)
(* nothing of the first run is kept or appended to.                       *)
C4_SecondRunSameFile ==
    run = "second" =>
        /\ pc = "header" => file.lines = <<>>
        /\ (Terminal /\ err \in {"none", "list"} /\ pages = prev.pages) =>
               file = prev.file

C4_Witness ==
    /\ run = "second"
    /\ pc = "done"
    /\ prev.pc = "done"
    /\ pages = prev.pages
    /\ Len(file.lines) >= 3

(* C5: after a failed directory creation the run is aborted: no page was  *)
(* requested, the output file was not opened or touched, and the          *)
(* completion line was not printed.                                       *)
C5_MakedirsFailureAborts ==
    err = "makedirs" =>
        /\ pc = "aborted"
        /\ requested = 0
        /\ handle = "none"
        /\ file = StaleFile
        /\ ~Printed(DoneLine(csv_filename).text)

C5_Witness ==
    /\ err = "makedirs"
    /\ pc = "aborted"
    /\ pages # <<>>

(* C6: the file handle is open exactly while the script is inside the     *)
(* with block; in every terminal state of a run that opened the file the  *)
(* handle is closed, and the file changes only under an open handle.      *)
C6_HandleReleased ==
    /\ [](/\ Terminal => handle \in {"none", "closed"}
          /\ (Terminal /\ err \notin {"makedirs", "open"}) => handle = "closed"
          /\ handle = "open" <=> pc \in {"header", "fetch", "rows"})
    /\ [][file' # file => (handle' = "open" /\ pc' \in {"header", "fetch", "rows"})]_vars

C6_Witness ==
    /\ pc = "aborted"
    /\ err = "write"
    /\ handle = "closed"
    /\ Len(file.lines) >= 2

(* C7: once the request for page k has raised, the run is aborted with    *)
(* exactly k requests issued, the completion line is not printed, and the *)
(* file, closed, holds the header and the rows of the status-200 pages    *)
(* before k in place of whatever it held before.                          *)
C7_ListFailureAborts ==
    (failAt >= 1 /\ requested >= failAt) =>
        /\ pc = "aborted"
        /\ err = "list"
        /\ requested = failAt
        /\ handle = "closed"
        /\ ~Printed(DoneLine(csv_filename).text)
        /\ file = [exists |-> TRUE,
                   lines |-> <<DeclaredColumns>>
                                 \o PassingRows(SubSeq(pages, 1, failAt - 1))]

C7_Witness ==
    /\ err = "list"
    /\ failAt = 2
    /\ Len(pages) = 2
    /\ Len(file.lines) = 3

(* C8: a run whose upstream has a degraded page and a run whose upstream  *)
(* has a successful page without items in its place end alike: same file, *)
(* same console lines, same outcome, same number of requests; without a   *)
(* failing request both complete after requesting every page and print    *)
(* only the folder line and the completion line.                          *)
C8_DegradedLikeEmpty ==
    (/\ run = "second"
     /\ Terminal
     /\ err \in {"none", "list"}
     /\ \E i \in DOMAIN prev.pages :
           /\ Degraded(prev.pages[i])
           /\ pages = [prev.pages EXCEPT ![i] = EmptyOkPage]) =>
        /\ file = prev.file
        /\ console = prev.console
        /\ pc = prev.pc
        /\ requested = prev.requested
        /\ failAt = 0 =>
              /\ pc = "done"
              /\ requested = Len(pages)
              /\ console = <<DebugLine(folder_path), DoneLine(csv_filename)>>

C8_Witness ==
    /\ run = "second"
    /\ pc = "done"
    /\ prev.pc = "done"
    /\ Len(pages) = 2
    /\ Degraded(prev.pages[1])
    /\ prev.pages[1].items # <<>>
    /\ pages = [prev.pages EXCEPT ![1] = EmptyOkPage]
    /\ Len(file.lines) >= 2

Slash(p) == IF p # <<>> /\ p[Len(p)] = "/" THEN p ELSE p \o <<"/">>

RECURSIVE NumberOf(_)
\* The number a sequence of decimal digits writes (-1: not all digits).
NumberOf(ds) ==
    IF ds = <<>> THEN 0
    ELSE LET d == ds[Len(ds)]
             front == NumberOf(SubSeq(ds, 1, Len(ds) - 1))
         IN  IF front < 0 \/ ~(\E k \in DOMAIN Digits : Digits[k] = d) THEN -1
             ELSE 10 * front + (CHOOSE k \in DOMAIN Digits : Digits[k] = d) - 1

\* The parent directory of a path that does not end with a separator.
Parent(p) ==
    LET i == CHOOSE j \in DOMAIN p :
                 p[j] = "/" /\ \A k \in (j + 1)..Len(p) : p[k] # "/"
    IN  SubSeq(p, 1, i - 1)

AcmeJuly2024 ==
    <<"/", "d", "a", "t", "a", "/", "A", "c", "m", "e", "/", "2", "0", "2",
      "4", "0", "7", "/", "A", "c", "m", "e", "_", "r", "e", "c", "o", "m",
      "m", "e", "n", "d", "a", "t", "i", "o", "n", "s", ".", "c", "s", "v">>

(* C9: the period tag is the 6 digits YYYYMM of the run date, the output  *)
(* path is root/client/tag/client_recommendations.csv, which for Acme,    *)
(* /data/ and July 2024 is /data/Acme/202407/Acme_recommendations.csv,    *)
(* and the folder printed first is the parent of the path printed last.   *)
C9_OutputPath ==
    /\ current_date # <<>> =>
          /\ Len(current_date) = 6
          /\ NumberOf(current_date) = 100 * now.year + now.month
    /\ csv_filename # <<>> =>
          /\ csv_filename = Slash(local_root) \o client_name \o <<"/">>
                                \o current_date \o <<"/">> \o client_name
                                \o RecommendationsCsv
          /\ (client_name = Acme /\ local_root = DataRootSlash
                 /\ now.year = 2024 /\ now.month = 7) =>
                 csv_filename = AcmeJuly2024
    /\ pc = "done" =>
          /\ Len(console) = 2
          /\ console[1].path = Parent(console[2].path)
          /\ console[2].path = csv_filename

C9_Witness ==
    /\ pc = "done"
    /\ client_name = Acme
    /\ local_root = DataRootSlash
    /\ now = [year |-> 2024, month |-> 7]
    /\ console[2].path = AcmeJuly2024

(* C10: the items of a page are written only if the page carries          *)
(* HTTPStatusCode 200 exactly: a page without ResponseMetadata, without   *)
(* HTTPStatusCode, or with another code such as 201 is skipped, and a     *)
(* page with status 200 is never skipped.                                 *)
C10_OnlyStatus200 ==
    /\ pc = "rows" => ~Degraded(pages[requested])
    /\ (pc = "fetch" /\ requested >= 1 /\ itemNo = 0) =>
          (Degraded(pages[requested]) \/ PageItems(pages[requested]) = <<>>)
    /\ pc = "done" => Len(file.lines) = 1 + PassingCount(pages)

C10_Witness ==
    /\ pc = "done"
    /\ Len(pages) = 2
    /\ ~pages[1].hasMeta
    /\ pages[1].items # <<>>
    /\ pages[2].hasCode
    /\ pages[2].code = 201
    /\ Len(file.lines) = 1

====
